---- MODULE Spec2Model ----
(***************************************************************************)
(* Model of fastchain/reporter.py: the Severity vocabulary, Failure,       *)
(* FailureData, the _Reporter context object (hierarchical name, details   *)
(* and severity, report(), the with-statement protocol) and the Reporter   *)
(* class with its derivation by call.                                      *)
(*                                                                         *)
(* Python values are encoded as follows.  None is the string NoneVal.      *)
(* A dict is a function whose DOMAIN is the set of its keys.  An exception *)
(* object is a record [type, args, description, details]; description and  *)
(* details are NoneVal / the empty dict on exceptions that are not         *)
(* Failure.  Object references are indices into a heap sequence, 0 is the  *)
(* None reference.                                                         *)
(***************************************************************************)
EXTENDS Integers, Sequences, FiniteSets, TLC

VARIABLES
    reporters,  \* heap of _Reporter objects: Seq of [_name, _root, _severity, _handler, _details]
    last,       \* the most recent operation: its inputs and what its caller observed
    handled,    \* the handler calls made by the most recent operation, in order:
                \* [handler, failure (the FailureData passed), outcome (what the handler did)]
    tracers,    \* heap of Reporter objects: Seq of [name, reports]
    given,      \* per Reporter object, the names given along its derivation chain
    result      \* the most recent Reporter operation: [op, self, arg, ret]

vars == <<reporters, last, handled, tracers, given, result>>

-----------------------------------------------------------------------------
(* Bounds *)

MaxDepth == 2
MaxTracers == 3

-----------------------------------------------------------------------------
(* Python values *)

NoneVal == "<None>"

EmptyDict == [k \in {} |-> "x"]

\* Merge with the precedence reversed: the value of a where both have the key
Merge_first_wins(a, b) ==
    [k \in (DOMAIN a) \cup (DOMAIN b) |-> IF k \in DOMAIN a THEN a[k] ELSE b[k]]

\* {**a, **b}: keys of both, the value of b where both have the key
Merge(a, b) ==
    [k \in (DOMAIN a) \cup (DOMAIN b) |-> IF k \in DOMAIN b THEN b[k] ELSE a[k]]

\* str(x) / f-string formatting of a str-or-None value
Str(x) == IF x = NoneVal THEN "None" ELSE x

\* truth value of a str-or-None value: None and "" are false
Truthy(x) == (x # NoneVal) /\ (x # "")

-----------------------------------------------------------------------------
(* Severity *)

OPTIONAL == "OPTIONAL"
NORMAL == "NORMAL"
REQUIRED == "REQUIRED"

Severity == {OPTIONAL, NORMAL, REQUIRED}

\* the IntEnum values
SeverityValue(s) == CASE s = OPTIONAL -> -1 [] s = NORMAL -> 0 [] s = REQUIRED -> 1

-----------------------------------------------------------------------------
(* Exceptions *)

\* the classes an instance of the given exception class is an instance of
Mro(type) ==
    CASE type = "Failure" -> {"Failure", "Exception", "BaseException"}
      [] type = "ValueError" -> {"ValueError", "Exception", "BaseException"}
      [] type = "RuntimeError" -> {"RuntimeError", "Exception", "BaseException"}
      [] type = "KeyboardInterrupt" -> {"KeyboardInterrupt", "BaseException"}
      [] type = "SystemExit" -> {"SystemExit", "BaseException"}

IsInstance(exc, class) == class \in Mro(exc.type)

\* Failure(description, **details)
Failure(description, details) ==
    [type |-> "Failure", args |-> <<description>>,
     description |-> description, details |-> details]

\* an exception of a builtin class constructed with the given positional arguments
BuiltinError(type, args) ==
    [type |-> type, args |-> args, description |-> NoneVal, details |-> EmptyDict]

\* str(exc) of an exception constructed with zero or one string argument
ExcStr(exc) == IF exc.args = <<>> THEN "" ELSE exc.args[1]

\* _util.pascal_to_snake on the class names used here
pascal_to_snake(name) ==
    CASE name = "ValueError" -> "value_error"
      [] name = "RuntimeError" -> "runtime_error"
      [] name = "Failure" -> "failure"
      [] OTHER -> name

-----------------------------------------------------------------------------
(* Input domains *)

RootNames == {NoneVal, "a"}
ChildNames == {NoneVal, "b"}
SeverityArgs == Severity \cup {NoneVal}
Handlers == {NoneVal, "handler"}

RootDetails == {EmptyDict, [k \in {"k", "j"} |-> "root"]}
ChildDetails == {EmptyDict, [k \in {"k"} |-> "child"]}

\* keyword arguments at a report() call site; the overloads name one of them severity
CallDetails ==
    {EmptyDict,
     [k \in {"k", "severity", "error_type"} |-> IF k = "severity" THEN REQUIRED ELSE "call"]}

Failures ==
    {Failure("bad input", [k \in {"k", "field"} |-> IF k = "k" THEN "failure" ELSE "age"])}

Errors == {BuiltinError("ValueError", <<"boom">>)}

Interrupts == {BuiltinError("KeyboardInterrupt", <<>>)}

Descriptions == {"something failed"}

\* what a handler call does: handlers are user code
HandlerBehaviours == {"returns", "raises"}

HandlerError == BuiltinError("RuntimeError", <<"handler failed">>)

-----------------------------------------------------------------------------
(* FailureData *)

\* the frozen dataclass built by report(); the datetime field is the wall
\* clock reading and is left out of the record
FailureData(source, description, severity_, details_) ==
    [source |-> source, description |-> description,
     severity |-> severity_, details |-> details_]

-----------------------------------------------------------------------------
(* _Reporter *)

\* _Reporter.__init__
ReporterInit(name_, severity_, handler, details_) ==
    [_name |-> name_, _root |-> 0, _severity |-> severity_,
     _handler |-> handler, _details |-> details_]

RECURSIVE name(_, _)
\* _Reporter.name
name(h, self) ==
    LET root == h[self]._root IN
    IF root # 0 /\ Truthy(name(h, root))
    THEN Str(name(h, root)) \o "." \o Str(h[self]._name)
    ELSE h[self]._name

RECURSIVE details(_, _)
\* _Reporter.details
details(h, self) ==
    LET root == h[self]._root IN
    IF root # 0
    THEN Merge(details(h, root), h[self]._details)
    ELSE h[self]._details

RECURSIVE severity(_, _)
\* _Reporter.severity
severity(h, self) ==
    LET severity_ == h[self]._severity
        root == h[self]._root
    IN  IF severity_ = NoneVal /\ root # 0
        THEN severity(h, root)
        ELSE severity_

\* a plain description string passed to report()
StrArg(s) == [type |-> "str", value |-> s]

\* the description and details report() builds for its argument
ReportDescription(arg) ==
    IF arg.type = "str" THEN arg.value
    ELSE IF IsInstance(arg, "Failure") THEN arg.description
    ELSE ExcStr(arg)

ReportDetails(h, self, arg, kwargs) ==
    IF arg.type = "str" THEN Merge(details(h, self), kwargs)
    ELSE IF IsInstance(arg, "Failure")
    THEN Merge(Merge(details(h, self), kwargs), arg.details)
    ELSE Merge(Merge(details(h, self), kwargs),
               [k \in {"error_type"} |-> pascal_to_snake(arg.type)])

\* report() without the test for OPTIONAL
report_ignores_severity(h, self, arg, kwargs, behaviour) ==
    LET severity_ == severity(h, self)
        handler == h[self]._handler
    IN  IF handler = NoneVal
        THEN [handled |-> <<>>, raised |-> <<>>]
        ELSE [handled |-> <<[handler |-> handler,
                             failure |-> FailureData(name(h, self),
                                                     ReportDescription(arg),
                                                     severity_,
                                                     ReportDetails(h, self, arg, kwargs)),
                             outcome |-> behaviour]>>,
              raised |-> IF behaviour = "raises" THEN <<HandlerError>> ELSE <<>>]

\* report() without the test for a missing handler: calling None raises TypeError
report_ignores_missing_handler(h, self, arg, kwargs, behaviour) ==
    LET severity_ == severity(h, self)
        handler == h[self]._handler
    IN  IF severity_ = OPTIONAL
        THEN [handled |-> <<>>, raised |-> <<>>]
        ELSE IF handler = NoneVal
        THEN [handled |-> <<>>,
              raised |-> <<BuiltinError("TypeError", <<"'NoneType' object is not callable">>)>>]
        ELSE [handled |-> <<[handler |-> handler,
                             failure |-> FailureData(name(h, self),
                                                     ReportDescription(arg),
                                                     severity_,
                                                     ReportDetails(h, self, arg, kwargs)),
                             outcome |-> behaviour]>>,
              raised |-> IF behaviour = "raises" THEN <<HandlerError>> ELSE <<>>]

\* _Reporter.report(arg, **kwargs): the handler calls it makes and the
\* exception it raises, if any; behaviour is what the handler does when called
report(h, self, arg, kwargs, behaviour) ==
    LET severity_ == severity(h, self)
        handler == h[self]._handler
    IN  IF severity_ = OPTIONAL \/ handler = NoneVal
        THEN [handled |-> <<>>, raised |-> <<>>]
        ELSE [handled |-> <<[handler |-> handler,
                             failure |-> FailureData(name(h, self),
                                                     ReportDescription(arg),
                                                     severity_,
                                                     ReportDetails(h, self, arg, kwargs)),
                             outcome |-> behaviour]>>,
              raised |-> IF behaviour = "raises" THEN <<HandlerError>> ELSE <<>>]

\* __exit__ that reports an ordinary exception and then lets it propagate
ReporterExit_reraises(h, self, exc, behaviour) ==
    IF exc = <<>>
    THEN [handled |-> <<>>, raised |-> <<>>, returns |-> TRUE]
    ELSE IF IsInstance(exc[1], "Exception")
    THEN LET r == report(h, self, exc[1], EmptyDict, behaviour)
         IN  [handled |-> r.handled, raised |-> r.raised, returns |-> FALSE]
    ELSE [handled |-> <<>>, raised |-> <<>>, returns |-> FALSE]

\* __exit__ that tests for BaseException instead of Exception
ReporterExit_catches_all(h, self, exc, behaviour) ==
    IF exc = <<>>
    THEN [handled |-> <<>>, raised |-> <<>>, returns |-> TRUE]
    ELSE IF IsInstance(exc[1], "BaseException")
    THEN LET r == report(h, self, exc[1], EmptyDict, behaviour)
         IN  [handled |-> r.handled, raised |-> r.raised, returns |-> TRUE]
    ELSE [handled |-> <<>>, raised |-> <<>>, returns |-> FALSE]

\* __exit__ that swallows what report() raises
ReporterExit_guards_report(h, self, exc, behaviour) ==
    IF exc = <<>>
    THEN [handled |-> <<>>, raised |-> <<>>, returns |-> TRUE]
    ELSE IF IsInstance(exc[1], "Exception")
    THEN LET r == report(h, self, exc[1], EmptyDict, behaviour)
         IN  [handled |-> r.handled, raised |-> <<>>, returns |-> TRUE]
    ELSE [handled |-> <<>>, raised |-> <<>>, returns |-> FALSE]

\* _Reporter.__exit__(exc_type, exc_val, exc_tb); exc is <<>> when the body
\* completed and <<exc_val>> when it raised
ReporterExit(h, self, exc, behaviour) ==
    IF exc = <<>>
    THEN [handled |-> <<>>, raised |-> <<>>, returns |-> TRUE]
    ELSE IF IsInstance(exc[1], "Exception")
    THEN LET r == report(h, self, exc[1], EmptyDict, behaviour)
         IN  [handled |-> r.handled, raised |-> r.raised, returns |-> TRUE]
    ELSE [handled |-> <<>>, raised |-> <<>>, returns |-> FALSE]

\* what leaves a with statement: an exception raised by __exit__, else the
\* body's exception unless __exit__ returned a true value, else nothing
WithRaised(exc, exit) ==
    IF exit.raised # <<>> THEN exit.raised
    ELSE IF exc # <<>> /\ ~exit.returns THEN exc
    ELSE <<>>

-----------------------------------------------------------------------------
(* _Reporter operations *)

(* The reporters of one chain invocation form a stack that mirrors the call *)
(* nesting: reporters[1] is the root, reporters[i]._root = i - 1, and the   *)
(* last one belongs to the step that is executing.                          *)

Current == Len(reporters)

Op(op, arg, kwargs, raised, ret) ==
    [op |-> op, arg |-> arg, kwargs |-> kwargs, raised |-> raised, ret |-> ret]

Init ==
    /\ \E name_ \in RootNames, severity_ \in SeverityArgs,
          handler \in Handlers, details_ \in RootDetails :
          reporters = <<ReporterInit(name_, severity_, handler, details_)>>
    /\ last = Op("init", <<>>, EmptyDict, <<>>, 1)
    /\ handled = <<>>
    /\ tracers = <<>>
    /\ given = <<>>
    /\ result = [op |-> "none", self |-> 0, arg |-> NoneVal, ret |-> 0]

\* the nested step derives its reporter: reporter.child(name, severity, handler, **details)
Child(name_, severity_, handler, details_) ==
    /\ IF name_ = NoneVal
       THEN /\ reporters' = reporters
            /\ last' = Op("child", <<name_>>, EmptyDict, <<>>, Current)
       ELSE IF reporters[Current]._name = NoneVal
       THEN /\ reporters' = [reporters EXCEPT ![Current]._name = name_]
            /\ last' = Op("child", <<name_>>, EmptyDict, <<>>, Current)
       ELSE /\ Len(reporters) < MaxDepth
            /\ reporters' = Append(reporters,
                   [ReporterInit(name_, severity_, handler, details_)
                       EXCEPT !._root = Current])
            /\ last' = Op("child", <<name_>>, details_, <<>>, Current + 1)
    /\ handled' = <<>>
    /\ UNCHANGED <<tracers, given, result>>

\* the executing step returns and its reporter is discarded
Return ==
    /\ Len(reporters) > 1
    /\ reporters' = SubSeq(reporters, 1, Len(reporters) - 1)
    /\ last' = Op("return", <<>>, EmptyDict, <<>>, 0)
    /\ handled' = <<>>
    /\ UNCHANGED <<tracers, given, result>>

\* reporter.report(arg, **kwargs)
Report(arg, kwargs, behaviour) ==
    LET r == report(reporters, Current, arg, kwargs, behaviour) IN
    /\ handled' = r.handled
    /\ last' = Op("report", <<arg>>, kwargs, r.raised, 0)
    /\ UNCHANGED <<reporters, tracers, given, result>>

\* with reporter: <body>, where the body completes (exc = <<>>) or raises exc[1]
With(exc, behaviour) ==
    LET exit == ReporterExit(reporters, Current, exc, behaviour) IN
    /\ handled' = exit.handled
    /\ last' = Op("with", exc, EmptyDict, WithRaised(exc, exit), 0)
    /\ UNCHANGED <<reporters, tracers, given, result>>

ReportArgs == {StrArg(d) : d \in Descriptions} \cup Failures \cup Errors

BodyOutcomes == {<<>>} \cup {<<e>> : e \in Failures \cup Errors \cup Interrupts}

Next ==
    \/ \E name_ \in ChildNames, severity_ \in SeverityArgs,
          handler \in Handlers, details_ \in ChildDetails :
          Child(name_, severity_, handler, details_)
    \/ Return
    \/ \E arg \in ReportArgs, kwargs \in CallDetails,
          behaviour \in HandlerBehaviours :
          Report(arg, kwargs, behaviour)
    \/ \E exc \in BodyOutcomes, behaviour \in HandlerBehaviours :
          With(exc, behaviour)

Spec == Init /\ [][Next]_vars

-----------------------------------------------------------------------------
(* Reporter *)

TracerNames == {NoneVal, "", "a", "b"}

\* Reporter.__init__(name, reports)
TracerInit(name_, reports) ==
    [name |-> IF Truthy(name_) THEN Str(name_) ELSE NoneVal,
     reports |-> IF DOMAIN reports # {} THEN reports ELSE EmptyDict]

\* __call__ that names the new Reporter by the given name alone
TracerCall_leaf_name(h, self, name_) ==
    IF name_ = NoneVal
    THEN [heap |-> h, ret |-> self]
    ELSE IF h[self].name = NoneVal
    THEN [heap |-> [h EXCEPT ![self].name = Str(name_)], ret |-> self]
    ELSE [heap |-> Append(h, TracerInit(Str(name_), h[self].reports)),
          ret |-> Len(h) + 1]

\* Reporter.__call__(name): the heap after the call and the reference returned
TracerCall(h, self, name_) ==
    IF name_ = NoneVal
    THEN [heap |-> h, ret |-> self]
    ELSE IF h[self].name = NoneVal
    THEN [heap |-> [h EXCEPT ![self].name = Str(name_)], ret |-> self]
    ELSE [heap |-> Append(h, TracerInit(Str(h[self].name) \o "." \o Str(name_),
                                        h[self].reports)),
          ret |-> Len(h) + 1]

InitNaming ==
    /\ \E name_ \in TracerNames :
          /\ tracers = <<TracerInit(name_, EmptyDict)>>
          /\ given = <<IF Truthy(name_) THEN <<name_>> ELSE <<>> >>
    /\ result = [op |-> "init", self |-> 0, arg |-> NoneVal, ret |-> 1]
    /\ reporters = <<>>
    /\ last = Op("none", <<>>, EmptyDict, <<>>, 0)
    /\ handled = <<>>

\* reporter(name)
Call(self, name_) ==
    LET c == TracerCall(tracers, self, name_) IN
    /\ Len(c.heap) <= MaxTracers
    /\ tracers' = c.heap
    /\ result' = [op |-> "call", self |-> self, arg |-> name_, ret |-> c.ret]
    /\ given' = IF name_ = NoneVal THEN given
                ELSE IF c.ret = self THEN [given EXCEPT ![self] = <<name_>>]
                ELSE Append(given, Append(given[self], name_))
    /\ UNCHANGED <<reporters, last, handled>>

NextNaming == \E self \in 1..Len(tracers), name_ \in TracerNames : Call(self, name_)

SpecNaming == InitNaming /\ [][NextNaming]_vars

-----------------------------------------------------------------------------
(* Properties of _Reporter, checked under Spec *)

\* the most recent operation went through report(): directly, or from __exit__
Reported == last.op \in {"report", "with"}

\* the reporters from the root down to the current one
Chain == 1..Current

\* C1: when the reporter's resolved severity is OPTIONAL, report() invokes no
\* handler, whatever it is given and whether or not a handler is configured,
\* on every call
C1_OptionalNeverDispatched ==
    (Reported /\ severity(reporters, Current) = OPTIONAL) => handled = <<>>

C1_Witness ==
    /\ last.op = "report"
    /\ severity(reporters, Current) = OPTIONAL
    /\ reporters[Current]._handler # NoneVal
    /\ handled = <<>>

\* C2: a severity given at the report() call is the severity of the
\* FailureData dispatched, in place of the reporter's resolved severity
C2_OverrideWins ==
    (/\ last.op = "report"
     /\ "severity" \in DOMAIN last.kwargs
     /\ handled # <<>>)
    => handled[1].failure.severity = last.kwargs["severity"]

\* C3: every FailureData handed to a handler has severity NORMAL or REQUIRED,
\* a root without a severity counting as NORMAL
C3_SeverityNeverAbsent ==
    \A i \in DOMAIN handled : handled[i].failure.severity \in {NORMAL, REQUIRED}


\* the exception that left the body of the most recent with statement
Fault == last.arg[1]

\* the most recent operation is a with statement whose body raised an
\* ordinary exception
OrdinaryFault ==
    last.op = "with" /\ last.arg # <<>> /\ "Exception" \in Mro(Fault.type)

\* the most recent operation is a with statement whose body raised an
\* exception that is not an Exception
InterruptFault ==
    last.op = "with" /\ last.arg # <<>> /\ "Exception" \notin Mro(Fault.type)

\* the description a fault carries: Failure.description, else its message
FaultDescription(exc) ==
    IF exc.type = "Failure" THEN exc.description
    ELSE IF Len(exc.args) = 0 THEN "" ELSE exc.args[1]

HandlersReturned == \A i \in DOMAIN handled : handled[i].outcome = "returns"

\* C4: an ordinary exception leaving the with block does not reach the
\* caller, who sees a normal return when the handler returns; a reporter with
\* a handler and a resolved severity other than OPTIONAL invokes the handler
\* exactly once, with the fault's description; a body that completes invokes
\* no handler
C4_ScopeAbsorbsOrdinaryFault ==
    /\ OrdinaryFault =>
          /\ last.raised # last.arg
          /\ HandlersReturned => last.raised = <<>>
          /\ (/\ reporters[Current]._handler # NoneVal
              /\ severity(reporters, Current) # OPTIONAL)
             => /\ Len(handled) = 1
                /\ handled[1].handler = reporters[Current]._handler
                /\ handled[1].failure.description = FaultDescription(Fault)
    /\ (last.op = "with" /\ last.arg = <<>>) =>
          handled = <<>> /\ last.raised = <<>>

C4_Witness ==
    /\ OrdinaryFault
    /\ Fault.type = "ValueError"
    /\ Len(handled) = 1
    /\ handled[1].failure.description = "boom"
    /\ last.raised = <<>>

\* C5: an exception that is not an Exception leaving the with block reaches
\* the caller unchanged and no handler is invoked, for every severity and
\* handler
C5_ScopePropagatesInterrupt ==
    InterruptFault => (last.raised = last.arg /\ handled = <<>>)

C5_Witness ==
    /\ InterruptFault
    /\ reporters[Current]._handler # NoneVal
    /\ severity(reporters, Current) = REQUIRED
    /\ last.raised = <<BuiltinError("KeyboardInterrupt", <<>>)>>
    /\ handled = <<>>

NoHandlerInChain == \A i \in Chain : reporters[i]._handler = NoneVal

\* C6: report() on a reporter with no handler anywhere in its ancestor chain
\* invokes no handler, raises nothing and leaves every reporter's name,
\* severity and details as they were, for every severity
C6_NoHandlerNoOp ==
    [][(last'.op = "report" /\ NoHandlerInChain)
          => /\ handled' = <<>>
             /\ last'.raised = <<>>
             /\ reporters' = reporters]_vars

C6_Witness ==
    /\ last.op = "report"
    /\ NoHandlerInChain
    /\ Current > 1
    /\ severity(reporters, Current) = REQUIRED
    /\ handled = <<>>

\* the handler of the nearest reporter in the chain that has one
RECURSIVE NearestHandler(_)
NearestHandler(i) ==
    IF i = 0 THEN NoneVal
    ELSE IF reporters[i]._handler # NoneVal THEN reporters[i]._handler
    ELSE NearestHandler(reporters[i]._root)

\* C7: report() on a reporter without a handler of its own, under an ancestor
\* that has one, with a resolved severity other than OPTIONAL, invokes the
\* ancestor's handler exactly once
C7_HandlerInherited ==
    (/\ last.op = "report"
     /\ reporters[Current]._handler = NoneVal
     /\ NearestHandler(Current) # NoneVal
     /\ severity(reporters, Current) # OPTIONAL)
    => /\ Len(handled) = 1
       /\ handled[1].handler = NearestHandler(Current)


\* the argument report() received in the most recent operation
Reportee == last.arg[1]

\* the levels a dispatched details mapping is merged from, lowest precedence
\* first: the details of each reporter from the root down to the current
\* one, the keyword arguments of the call, then the Failure's own details or
\* the error_type entry of any other exception
DetailLevels ==
    [i \in Chain |-> reporters[i]._details]
    \o <<last.kwargs>>
    \o <<IF Reportee.type = "str" THEN EmptyDict
         ELSE IF Reportee.type = "Failure" THEN Reportee.details
         ELSE [k \in {"error_type"} |-> pascal_to_snake(Reportee.type)]>>

\* the value for key k at the highest level that has it
Winner(levels, k) ==
    LET top == CHOOSE i \in DOMAIN levels :
                   /\ k \in DOMAIN levels[i]
                   /\ \A j \in DOMAIN levels : j > i => k \notin DOMAIN levels[j]
    IN  levels[top][k]

\* C9: the details of a dispatched FailureData hold every key of every level
\* (ancestors, the reporter, the call site, the Failure or error_type), each
\* with the value of the highest level that has the key
C9_DetailsPrecedence ==
    (Reported /\ handled # <<>>) =>
        LET d == handled[1].failure.details IN
        /\ DOMAIN d = UNION {DOMAIN DetailLevels[i] : i \in DOMAIN DetailLevels}
        /\ \A k \in DOMAIN d : d[k] = Winner(DetailLevels, k)

C9_Witness ==
    /\ last.op = "report"
    /\ handled # <<>>
    /\ Current = 2
    /\ reporters[1]._details = [k \in {"k", "j"} |-> "root"]
    /\ reporters[2]._details = [k \in {"k"} |-> "child"]
    /\ last.kwargs # EmptyDict
    /\ Reportee.type = "Failure"
    /\ handled[1].failure.details["k"] = "failure"
    /\ handled[1].failure.details["j"] = "root"
    /\ handled[1].failure.details["error_type"] = "call"
    /\ handled[1].failure.details["field"] = "age"

HandlerRaised == \E i \in DOMAIN handled : handled[i].outcome = "raises"

\* C10: an exception raised by the handler leaves report(), and leaves the
\* with block when report() was called for an ordinary fault of the body; the
\* with block makes no second handler call for it
C10_HandlerErrorPropagates ==
    (Reported /\ HandlerRaised) =>
        /\ last.raised = <<HandlerError>>
        /\ Len(handled) = 1

C10_Witness ==
    /\ OrdinaryFault
    /\ Fault.type = "Failure"
    /\ HandlerRaised
    /\ last.raised = <<HandlerError>>

-----------------------------------------------------------------------------
(* Properties of Reporter, checked under SpecNaming *)

RECURSIVE DotJoin(_)
\* the names of a derivation chain joined by dots; None for no name at all
DotJoin(names) ==
    IF names = <<>> THEN NoneVal
    ELSE IF Len(names) = 1 THEN names[1]
    ELSE DotJoin(SubSeq(names, 1, Len(names) - 1)) \o "." \o names[Len(names)]

NamesJoined == \A i \in DOMAIN tracers : tracers[i].name = DotJoin(given[i])

DerivationStep ==
    result'.op = "call" =>
        LET self == result'.self
            n == result'.arg
        IN  /\ n = NoneVal =>
                 result'.ret = self /\ tracers' = tracers
            /\ (n # NoneVal /\ tracers[self].name = NoneVal) =>
                 /\ result'.ret = self
                 /\ tracers' = [tracers EXCEPT ![self].name = n]
            /\ (n # NoneVal /\ tracers[self].name # NoneVal) =>
                 /\ result'.ret = Len(tracers) + 1
                 /\ Len(tracers') = Len(tracers) + 1
                 /\ tracers'[result'.ret].name = tracers[self].name \o "." \o n
                 /\ \A i \in DOMAIN tracers : tracers'[i] = tracers[i]

\* C8: deriving with no name returns the same Reporter unchanged; deriving
\* from a Reporter without a name sets the name in place and returns the same
\* Reporter; otherwise a new Reporter is returned, named by the parent's
\* name, a dot and the given name, and the parent keeps its name; so every
\* Reporter's name is the dot-joined names given along its chain
C8_DerivationNames == NamesJoined /\ [][DerivationStep /\ NamesJoined']_vars

C8_Witness ==
    /\ result.op = "call"
    /\ result.arg = "b"
    /\ result.ret # result.self
    /\ tracers[result.self].name = "a"
    /\ tracers[result.ret].name = "a.b"
    /\ given[result.ret] = <<"a", "b">>

====
